---- MODULE Spec2Model ----
(***************************************************************************)
(* The useUsers hook (src/presentation/screens/users/hooks/index.ts) as a  *)
(* state machine of the browser's event loop.                              *)
(*                                                                         *)
(* The hook owns two state fields, users and toast.  Every async function  *)
(* of the hook (fetchUsers, createFn, editFn, deleteFn) runs to its next   *)
(* await in one step; the awaited call travels to the user service, is     *)
(* answered there (Backend* actions) and the answer is delivered later as  *)
(* a task of its own, so answers of overlapping calls may be delivered in  *)
(* any order.  setTimeout callbacks are tasks too; timers of one delay     *)
(* fire in the order in which they were set.                               *)
(***************************************************************************)
EXTENDS Naturals, Sequences, FiniteSets, TLC

\* ---------------------------------------------------------------- bounds

\* Number of createFn/editFn/deleteFn invocations in one run.
MaxOps == 2

\* Time advances in steps of this many time units: a call made before a
\* step and a call made after it are a step apart, calls made between two
\* steps are less than a step apart.
TickStep == 100

\* The delay handed to setTimeout in showToast.
ToastDelay == 100

\* ----------------------------------------------------------------- values

Names == {"Bo"}

\* Identifiers the service hands out, in the order it hands them out.
IdSeq == <<"1", "2", "3">>

\* Identifiers the screen passes to editFn and deleteFn.
ArgIds == {"1"}

User(id, name) == [id |-> id, name |-> name]

NoUser == User("", "")

\* ETypeToast.SUCCESS
SUCCESS == "SUCCESS"

\* An optional value: <<>> is null, <<v>> is the value v.
NULL == <<>>

Some(v) == <<v>>

\* The mount effect is process 0; the invocations of the returned functions
\* are processes 1..MaxOps.
MountProc == 0

Ops == 1 .. MaxOps

Procs == {MountProc} \cup Ops

NoResp == [user |-> NoUser, users |-> <<>>]

VARIABLES
    users,      \* useState<UserEntity[]>: the list the screen shows
    toast,      \* useState<IToast | null>
    timers,     \* pending setTimeout callbacks, oldest first
    pc,         \* where each process stands
    kind,       \* which function an invocation runs
    arg,        \* its argument
    resp,       \* the service's answer, from when it is given until delivered
    backend,    \* the list the service holds
    lists,      \* history: getAllUsers calls each process has issued
    lastToast,  \* history: the arguments of the latest showToast call
    raced       \* history: a showToast call found an earlier timer pending

vars == <<users, toast, timers, pc, kind, arg, resp, backend, lists,
          lastToast, raced>>

\* ------------------------------------------------------------ the service
\* userUseCases (@core/services/users) is not part of the source at hand:
\* it is modelled from its contract.  A Backend* action is the service
\* answering a call; a call that fails is never answered and rejects
\* instead (MutationRejected, FetchUsersRejected).

InitialBackends == {<<User("1", "Ann")>>}

BackendIds(b) == {b[i].id : i \in 1 .. Len(b)}

HasFreshId(b) == \E k \in 1 .. Len(IdSeq) : IdSeq[k] \notin BackendIds(b)

FreshId(b) ==
    LET k == CHOOSE k \in 1 .. Len(IdSeq) :
                 /\ IdSeq[k] \notin BackendIds(b)
                 /\ \A j \in 1 .. k - 1 : IdSeq[j] \in BackendIds(b)
    IN  IdSeq[k]

IndexOf(b, id) == CHOOSE i \in 1 .. Len(b) : b[i].id = id

Without(b, i) == SubSeq(b, 1, i - 1) \o SubSeq(b, i + 1, Len(b))

Answer(p, r) ==
    /\ resp' = [resp EXCEPT ![p] = r]
    /\ UNCHANGED <<users, toast, timers, kind, arg, lists, lastToast, raced>>

BackendCreateUser(p) ==
    /\ pc[p] = "reqMutate" /\ kind[p] = "create"
    /\ HasFreshId(backend)
    /\ LET u == User(FreshId(backend), arg[p].name)
       IN  /\ backend' = Append(backend, u)
           /\ Answer(p, [user |-> u, users |-> <<>>])
    /\ pc' = [pc EXCEPT ![p] = "respMutate"]

BackendUpdateUser(p) ==
    /\ pc[p] = "reqMutate" /\ kind[p] = "edit"
    /\ arg[p].id \in BackendIds(backend)
    /\ backend' = [backend EXCEPT ![IndexOf(backend, arg[p].id)] = arg[p]]
    /\ Answer(p, [user |-> arg[p], users |-> <<>>])
    /\ pc' = [pc EXCEPT ![p] = "respMutate"]

BackendDeleteUser(p) ==
    /\ pc[p] = "reqMutate" /\ kind[p] = "delete"
    /\ arg[p].id \in BackendIds(backend)
    /\ LET i == IndexOf(backend, arg[p].id)
       IN  /\ backend' = Without(backend, i)
           /\ Answer(p, [user |-> backend[i], users |-> <<>>])
    /\ pc' = [pc EXCEPT ![p] = "respMutate"]

BackendGetAllUsers(p) ==
    /\ pc[p] = "reqList"
    /\ Answer(p, [user |-> NoUser, users |-> backend])
    /\ pc' = [pc EXCEPT ![p] = "respList"]
    /\ UNCHANGED backend

\* ---------------------------------------------------------------- the hook

Init ==
    /\ users = <<>>
    /\ toast = NULL
    /\ timers = <<>>
    /\ pc = [p \in Procs |-> "idle"]
    /\ kind = [p \in Ops |-> "none"]
    /\ arg = [p \in Ops |-> NoUser]
    /\ resp = [p \in Procs |-> NoResp]
    /\ backend \in InitialBackends
    /\ lists = [p \in Procs |-> 0]
    /\ lastToast = NULL
    /\ raced = FALSE

\* A faulty variant: an answer is dropped once a list is showing.
UsersOnFetchIfEmpty(cur, list) == IF cur = <<>> THEN list ELSE cur

\* A faulty variant: the fetched list is appended to the list at hand.
UsersPatchedOnFetch(cur, list) == cur \o list

\* setUsers(allUsers.users): the new value of users.
UsersOnFetch(cur, list) == list

\* A faulty variant: showToast does not clear the toast.
ToastKeptOnCall(cur) == cur

\* setToast(null) in showToast: the new value of toast.
ToastOnCall(cur) == NULL

\* A faulty variant: the callback leaves a toast that is showing in place.
ToastOnTimeoutIfNone(cur, t) ==
    IF cur = NULL THEN Some([message |-> t.message, type |-> t.type]) ELSE cur

\* setToast({ message, type }) in the setTimeout callback.
ToastOnTimeout(cur, t) == Some([message |-> t.message, type |-> t.type])

\* The messages of the three functions: the argument passed in, then the
\* record the service returned.
CreatedMessage(user, userCreated) == "User " \o userCreated.name \o " created"

UpdatedMessage(user, userUpdated) == "User " \o userUpdated.name \o " updated"

\* A faulty variant: the message is built from the id passed to deleteFn.
DeletedMessageFromId(user, userDeleted) == "User " \o user.id \o " deleted"

DeletedMessage(user, userDeleted) == "User " \o userDeleted.name \o " deleted"

\* A faulty variant: showToast sets the toast at once, without a timer.
ShowToastAtOnce(message, type) ==
    /\ toast' = Some([message |-> message, type |-> type])
    /\ timers' = timers
    /\ lastToast' = Some([message |-> message, type |-> type])
    /\ raced' = (raced \/ timers # <<>>)

\* A faulty variant: showToast clears the timers still pending.
ShowToastCancelling(message, type) ==
    /\ toast' = NULL
    /\ timers' = <<[message |-> message, type |-> type, left |-> ToastDelay]>>
    /\ lastToast' = Some([message |-> message, type |-> type])
    /\ raced' = (raced \/ timers # <<>>)

\* showToast(message, type): clears the toast and sets a timer.
ShowToast(message, type) ==
    /\ toast' = ToastOnCall(toast)
    /\ timers' = Append(timers, [message |-> message, type |-> type,
                                 left |-> ToastDelay])
    /\ lastToast' = Some([message |-> message, type |-> type])
    /\ raced' = (raced \/ timers # <<>>)

\* fetchUsers() up to its await: getAllUsers is called.
FetchUsersCall(p) ==
    /\ pc' = [pc EXCEPT ![p] = "reqList"]
    /\ lists' = [lists EXCEPT ![p] = @ + 1]

\* A faulty variant: the effect has no dependency list and runs after every render.
MountEveryRender ==
    /\ pc[MountProc] \in {"idle", "resolved"}
    /\ pc' = [pc EXCEPT ![MountProc] = "reqList"]
    /\ lists' = [lists EXCEPT ![MountProc] = @ + 1]
    /\ UNCHANGED <<users, toast, timers, kind, arg, resp, backend,
                   lastToast, raced>>

\* useEffect(() => { fetchUsers(); }, []): runs once, after the first render.
Mount ==
    /\ pc[MountProc] = "idle"
    /\ FetchUsersCall(MountProc)
    /\ UNCHANGED <<users, toast, timers, kind, arg, resp, backend,
                   lastToast, raced>>

\* A function of the hook is invoked and calls the service.
Invoke(p, k, a) ==
    /\ pc[MountProc] # "idle"
    /\ pc[p] = "idle"
    /\ \A q \in Ops : q < p => pc[q] # "idle"
    /\ kind' = [kind EXCEPT ![p] = k]
    /\ arg' = [arg EXCEPT ![p] = a]
    /\ pc' = [pc EXCEPT ![p] = "reqMutate"]
    /\ UNCHANGED <<users, toast, timers, resp, backend, lists,
                   lastToast, raced>>

\* createFn(user) up to its first await.
CreateFn(p, user) == Invoke(p, "create", user)

\* editFn(user) up to its first await.
EditFn(p, user) == Invoke(p, "edit", user)

\* deleteFn(id) up to its first await.
DeleteFn(p, id) == Invoke(p, "delete", User(id, ""))

\* A faulty variant: the function also patches users with the record returned.
ResumePatching(p, k, message) ==
    /\ pc[p] = "respMutate" /\ kind[p] = k
    /\ ShowToast(message, SUCCESS)
    /\ FetchUsersCall(p)
    /\ users' = Append(users, resp[p].user)
    /\ resp' = [resp EXCEPT ![p] = NoResp]
    /\ arg' = [arg EXCEPT ![p] = NoUser]
    /\ UNCHANGED <<kind, backend>>

\* The mutating call resolved: the function goes on to showToast and to
\* fetchUsers, up to the await inside fetchUsers.
Resume(p, k, message) ==
    /\ pc[p] = "respMutate" /\ kind[p] = k
    /\ ShowToast(message, SUCCESS)
    /\ FetchUsersCall(p)
    /\ resp' = [resp EXCEPT ![p] = NoResp]
    /\ arg' = [arg EXCEPT ![p] = NoUser]
    /\ UNCHANGED <<users, kind, backend>>

CreateFnResume(p) ==
    Resume(p, "create", CreatedMessage(arg[p], resp[p].user))

EditFnResume(p) ==
    Resume(p, "edit", UpdatedMessage(arg[p], resp[p].user))

DeleteFnResume(p) ==
    Resume(p, "delete", DeletedMessage(arg[p], resp[p].user))

\* A faulty variant: the refresh sits in a finally block and runs after a failure too.
MutationRejectedRefetches(p) ==
    /\ pc[p] = "reqMutate"
    /\ FetchUsersCall(p)
    /\ arg' = [arg EXCEPT ![p] = NoUser]
    /\ UNCHANGED <<users, toast, timers, kind, resp, backend, lastToast, raced>>

\* The mutating call rejected: the await throws and the function's promise
\* rejects; nothing after the await runs.
MutationRejected(p) ==
    /\ pc[p] = "reqMutate"
    /\ pc' = [pc EXCEPT ![p] = "rejected"]
    /\ resp' = [resp EXCEPT ![p] = NoResp]
    /\ arg' = [arg EXCEPT ![p] = NoUser]
    /\ UNCHANGED <<users, toast, timers, kind, backend, lists, lastToast, raced>>

\* A faulty variant: fetchUsers also dismisses the toast.
FetchUsersResumeClearsToast(p) ==
    /\ pc[p] = "respList"
    /\ users' = resp[p].users
    /\ toast' = NULL
    /\ pc' = [pc EXCEPT ![p] = "resolved"]
    /\ resp' = [resp EXCEPT ![p] = NoResp]
    /\ UNCHANGED <<timers, kind, arg, backend, lists, lastToast, raced>>

\* getAllUsers resolved: setUsers, fetchUsers returns, and the function
\* awaiting it (if any) returns as well.
FetchUsersResume(p) ==
    /\ pc[p] = "respList"
    /\ users' = UsersOnFetch(users, resp[p].users)
    /\ pc' = [pc EXCEPT ![p] = "resolved"]
    /\ resp' = [resp EXCEPT ![p] = NoResp]
    /\ UNCHANGED <<toast, timers, kind, arg, backend, lists, lastToast, raced>>

\* A faulty variant: a failed refresh takes the queued toast back.
FetchUsersRejectedClearsToast(p) ==
    /\ pc[p] = "reqList"
    /\ pc' = [pc EXCEPT ![p] = "rejected"]
    /\ toast' = NULL
    /\ timers' = <<>>
    /\ UNCHANGED <<users, kind, arg, resp, backend, lists, lastToast, raced>>

\* A faulty variant: a failed getAllUsers call is issued again.
FetchUsersRetried(p) ==
    /\ pc[p] = "reqList"
    /\ lists' = [lists EXCEPT ![p] = @ + 1]
    /\ UNCHANGED <<users, toast, timers, pc, kind, arg, resp, backend,
                   lastToast, raced>>

\* getAllUsers rejected: fetchUsers rejects, and so does the function
\* awaiting it (the mount effect leaves the rejection unhandled).
FetchUsersRejected(p) ==
    /\ pc[p] = "reqList"
    /\ pc' = [pc EXCEPT ![p] = "rejected"]
    /\ resp' = [resp EXCEPT ![p] = NoResp]
    /\ UNCHANGED <<users, toast, timers, kind, arg, backend, lists, lastToast,
                   raced>>

\* The oldest timer has run its delay: its callback sets the toast.
TimerFire ==
    /\ timers # <<>>
    /\ Head(timers).left = 0
    /\ toast' = ToastOnTimeout(toast, Head(timers))
    /\ timers' = Tail(timers)
    /\ UNCHANGED <<users, pc, kind, arg, resp, backend, lists,
                   lastToast, raced>>

\* Time passes.
Elapse(t) == [t EXCEPT !.left = IF @ > TickStep THEN @ - TickStep ELSE 0]

Tick ==
    /\ \E i \in 1 .. Len(timers) : timers[i].left > 0
    /\ timers' = [i \in 1 .. Len(timers) |-> Elapse(timers[i])]
    /\ UNCHANGED <<users, toast, pc, kind, arg, resp, backend, lists,
                   lastToast, raced>>

Next ==
    \/ Mount
    \/ \E p \in Ops, n \in Names : CreateFn(p, User("", n))
    \/ \E p \in Ops, i \in ArgIds, n \in Names : EditFn(p, User(i, n))
    \/ \E p \in Ops, i \in ArgIds : DeleteFn(p, i)
    \/ \E p \in Ops : CreateFnResume(p)
    \/ \E p \in Ops : EditFnResume(p)
    \/ \E p \in Ops : DeleteFnResume(p)
    \/ \E p \in Ops : MutationRejected(p)
    \/ \E p \in Procs : FetchUsersResume(p)
    \/ \E p \in Procs : FetchUsersRejected(p)
    \/ TimerFire
    \/ Tick
    \/ \E p \in Ops : BackendCreateUser(p)
    \/ \E p \in Ops : BackendUpdateUser(p)
    \/ \E p \in Ops : BackendDeleteUser(p)
    \/ \E p \in Procs : BackendGetAllUsers(p)

Spec == Init /\ [][Next]_vars

\* The event loop keeps running: time passes while a timer is counting down,
\* and a timer that has run its delay has its callback called.
FairSpec == Spec /\ WF_vars(Tick) /\ WF_vars(TimerFire)

\* ------------------------------------------------------------- properties

Last(s) == s[Len(s)]

RECURSIVE SumLists(_)
SumLists(S) ==
    IF S = {} THEN 0
    ELSE LET p == CHOOSE q \in S : TRUE
         IN  lists[p] + SumLists(S \ {p})

\* getAllUsers calls issued so far, by the mount effect and by invocations.
ListCalls == SumLists(Procs)

\* Steps of process p, told by what they do to pc.
MutationResolves(p) == pc[p] = "respMutate" /\ pc'[p] = "reqList"

MutationFails(p) == pc[p] = "reqMutate" /\ pc'[p] = "rejected"

ListAnswered(p) == pc[p] = "reqList" /\ pc'[p] = "respList"

ListResolves(p) == pc[p] = "respList" /\ pc'[p] = "resolved"

ListFails(p) == pc[p] = "reqList" /\ pc'[p] = "rejected"

\* A showToast call and a timer callback, told by what they do to timers.
ToastCalled == Len(timers') = Len(timers) + 1

TimerFired == timers # <<>> /\ timers' = Tail(timers)

Shown(t) == Some([message |-> t.message, type |-> t.type])

Verb(k) ==
    CASE k = "create" -> "created"
      [] k = "edit" -> "updated"
      [] k = "delete" -> "deleted"

\* C1 as claimed: when a successful create completes, users equals the list
\* the service holds (the list as that create, and nothing else, left it).
C1_UsersEqualBackend ==
    [][\A p \in Ops :
          kind[p] = "create" /\ ListResolves(p) => users' = backend']_vars

\* C1 as amended: when a successful create completes, users equals the list
\* the service returned to that create's own getAllUsers call, which is the
\* list the service held when it answered that call.
C1_UsersEqualListServed ==
    [][\A p \in Ops :
          /\ kind[p] = "create" /\ ListAnswered(p) => resp'[p].users = backend
          /\ kind[p] = "create" /\ ListResolves(p) => users' = resp[p].users]_vars

C1_Witness ==
    \E p \in Ops :
        /\ kind[p] = "create" /\ pc[p] = "resolved"
        /\ users = <<User("1", "Ann"), User("2", "Bo")>>
        /\ backend # users

\* C2: a successful create, edit or delete issues exactly one getAllUsers
\* call, in the step that receives the mutating call's answer; no step of the
\* mutation changes users; and a resolved getAllUsers call replaces users by
\* the list it returned.
C2_RefetchAfterMutation ==
    /\ [](\A p \in Ops :
             /\ pc[p] \in {"idle", "reqMutate", "respMutate"} => lists[p] = 0
             /\ pc[p] \in {"reqList", "respList", "resolved"} => lists[p] = 1
             /\ lists[p] <= 1)
    /\ [][\A p \in Ops :
             /\ pc[p] = "respMutate" /\ pc'[p] # pc[p] =>
                    MutationResolves(p) /\ lists'[p] = lists[p] + 1
             /\ pc[p] \in {"idle", "reqMutate", "respMutate"} /\ pc'[p] # pc[p]
                    => users' = users
             /\ ListResolves(p) => users' = resp[p].users]_vars

C2_Witness ==
    \E p \in Ops :
        /\ kind[p] = "delete" /\ pc[p] = "resolved" /\ lists[p] = 1
        /\ users = <<>> /\ backend = <<>>

\* C3: once the hook is mounted, and as long as no function of the hook has
\* been invoked, getAllUsers has been called exactly once; before the mount
\* effect has run it has not been called.
C3_OneFetchOnMount ==
    (\A p \in Ops : pc[p] = "idle") =>
        ListCalls = (IF pc[MountProc] = "idle" THEN 0 ELSE 1)

C3_Witness ==
    /\ pc[MountProc] = "resolved"
    /\ \A p \in Ops : pc[p] = "idle"
    /\ ListCalls = 1
    /\ users = <<User("1", "Ann")>>

\* C4: the step that receives the answer of a successful createUser,
\* updateUser or deleteUser call sets one timer, whose toast is of type
\* SUCCESS with the message "User <name> created|updated|deleted", <name>
\* being the name of the record the service returned; for deleteFn this is
\* not the id passed in.
C4_MessageFromReturnedRecord ==
    [][\A p \in Ops :
          MutationResolves(p) =>
              /\ ToastCalled
              /\ Shown(Last(timers')) =
                     Some([message |-> "User " \o resp[p].user.name \o " "
                                           \o Verb(kind[p]),
                           type |-> SUCCESS])
              /\ kind[p] = "delete" =>
                     Last(timers').message # "User " \o arg[p].id \o " deleted"
      ]_vars

C4_Witness ==
    /\ toast = Some([message |-> "User Ann deleted", type |-> SUCCESS])
    /\ \E p \in Ops : kind[p] = "delete" /\ pc[p] = "resolved"

\* C5: a mutating call that rejects ends the invocation: no showToast call,
\* no timer, no getAllUsers call, and users and toast as they were.
C5_FailedMutationDoesNothing ==
    [][\A p \in Ops :
          /\ MutationFails(p) =>
                 /\ ~ToastCalled
                 /\ UNCHANGED <<users, toast, timers, lists, lastToast>>
          /\ pc[p] = "reqMutate" /\ pc'[p] # pc[p] =>
                 MutationFails(p) \/ pc'[p] = "respMutate"
          /\ pc[p] = "rejected" => pc'[p] = "rejected" /\ lists'[p] = lists[p]
      ]_vars

C5_Witness ==
    \E p \in Ops :
        /\ kind[p] = "create" /\ pc[p] = "rejected" /\ lists[p] = 0
        /\ lastToast = NULL /\ timers = <<>>
        /\ pc[MountProc] = "resolved" /\ ListCalls = 1

\* C6: a showToast call sets toast to null at once and sets a timer of
\* ToastDelay; toast becomes non-null only in the callback of the oldest
\* timer, once that timer's whole delay has passed, and then it is that
\* timer's toast; while a timer is pending and no showToast call has ever met
\* another pending timer, toast is null.
C6_ClearThenShowAfterDelay ==
    /\ [](timers # <<>> /\ ~raced => toast = NULL)
    /\ [][/\ ToastCalled =>
                 toast' = NULL /\ Last(timers').left = ToastDelay
          /\ toast' # NULL /\ toast' # toast =>
                 /\ TimerFired
                 /\ Head(timers).left = 0
                 /\ toast' = Shown(Head(timers))]_vars

C6_Witness ==
    /\ ~raced /\ timers = <<>>
    /\ toast = Some([message |-> "User Bo created", type |-> SUCCESS])

\* C7: no timer is ever cancelled: timers only grows at its end (a showToast
\* call) and only shrinks at its head, by the callback that shows the head's
\* toast; so once every callback has fired, also after two showToast calls
\* less than ToastDelay apart, toast is the toast of the latest showToast call.
C7_LastCallWins ==
    /\ [](timers = <<>> => toast = lastToast)
    /\ [][/\ Len(timers') > Len(timers) =>
                 /\ ToastCalled
                 /\ SubSeq(timers', 1, Len(timers)) = timers
                 /\ lastToast' = Shown(Last(timers'))
          /\ Len(timers') < Len(timers) =>
                 TimerFired /\ toast' = Shown(Head(timers))
          /\ Len(timers') = Len(timers) =>
                 \A i \in 1 .. Len(timers) :
                     Shown(timers'[i]) = Shown(timers[i])]_vars

C7_Witness ==
    /\ raced /\ timers = <<>>
    /\ lastToast = Some([message |-> "User Ann deleted", type |-> SUCCESS])
    /\ toast = lastToast
    /\ \E p \in Ops : kind[p] = "create" /\ lists[p] = 1

CreatedToasts ==
    {[message |-> "User " \o n \o " created", type |-> SUCCESS] : n \in Names}

\* C8 as claimed: when a successful createFn issues its getAllUsers call,
\* toast is already the success toast.
C8_ToastSetBeforeRefetch ==
    [][\A p \in Ops :
          kind[p] = "create" /\ MutationResolves(p) /\ lists'[p] = lists[p] + 1
              => toast' = Some([message |-> "User " \o resp[p].user.name
                                                \o " created",
                                type |-> SUCCESS])]_vars

\* C8 as amended: the step in which a successful createFn receives the
\* created record sets toast to null, sets a timer of the full ToastDelay for
\* the success toast and issues the getAllUsers call; toast becomes the
\* success toast only when that timer fires, after the call was issued.
C8_ToastQueuedBeforeRefetch ==
    /\ [](toast # NULL /\ toast[1] \in CreatedToasts =>
             \E p \in Ops : kind[p] = "create" /\ lists[p] = 1)
    /\ [][\A p \in Ops :
             kind[p] = "create" /\ MutationResolves(p) =>
                 /\ lists'[p] = lists[p] + 1
                 /\ toast' = NULL
                 /\ ToastCalled
                 /\ Last(timers') =
                        [message |-> "User " \o resp[p].user.name \o " created",
                         type |-> SUCCESS, left |-> ToastDelay]]_vars

C8_Witness ==
    \E p \in Ops :
        /\ kind[p] = "create" /\ pc[p] = "resolved"
        /\ timers # <<>> /\ Head(timers).left > 0
        /\ Head(timers).message = "User Bo created"
        /\ toast = NULL

\* C9: when the getAllUsers call that follows a successful mutation rejects,
\* the invocation ends there: the step cancels no timer and changes neither
\* toast nor users, so users stays as it was while the success toast is
\* shown when its timer fires: once no timer is pending, a SUCCESS toast is
\* showing.
C9_FailedRefetchKeepsToast ==
    /\ [](\A p \in Ops :
             pc[p] = "rejected" /\ lists[p] = 1 =>
                 /\ lastToast # NULL
                 /\ timers = <<>> => toast # NULL /\ toast[1].type = SUCCESS)
    /\ [][\A p \in Ops :
             ListFails(p) =>
                 /\ lists[p] = 1
                 /\ UNCHANGED <<users, toast, timers, lastToast, backend>>]_vars

C9_Witness ==
    \E p \in Ops :
        /\ kind[p] = "create" /\ pc[p] = "rejected" /\ lists[p] = 1
        /\ \A q \in Ops \ {p} : pc[q] = "idle"
        /\ timers = <<>>
        /\ toast = Some([message |-> "User Bo created", type |-> SUCCESS])
        /\ users = <<User("1", "Ann")>>
        /\ backend = <<User("1", "Ann"), User("2", "Bo")>>

\* C10: a getAllUsers call that rejects leaves users unchanged and rejects
\* the promise of the process that issued it, which takes no further step;
\* a getAllUsers call is issued only by the mount effect or by the step of a
\* createFn, editFn or deleteFn that receives its mutating call's answer.
C10_FailedFetchNotRetried ==
    [][/\ \A p \in Procs :
             /\ ListFails(p) => users' = users /\ lists' = lists
             /\ pc[p] = "rejected" => pc'[p] = "rejected"
       /\ lists' # lists =>
             \E p \in Procs :
                 /\ lists' = [lists EXCEPT ![p] = @ + 1]
                 /\ \/ p = MountProc /\ pc[p] = "idle"
                    \/ p \in Ops /\ MutationResolves(p)]_vars

C10_Witness ==
    /\ pc[MountProc] = "rejected"
    /\ users = <<>>
    /\ \E p \in Ops : pc[p] = "resolved" /\ users = <<>> /\ ListCalls = 2

\* Every toast a showToast call of this model can be given.
AllToasts ==
    {[message |-> "User " \o n \o " " \o Verb(k), type |-> SUCCESS] :
        n \in Names \cup
              UNION {{b[i].name : i \in 1 .. Len(b)} : b \in InitialBackends},
        k \in {"create", "edit", "delete"}}

\* C11: a timer leaves timers only by its own callback, which takes the
\* oldest timer alone and sets toast to that timer's toast; and a toast that
\* is waiting on a timer is, in the end, the toast showing, whether or not a
\* later showToast call came before its timer fired and whether or not the
\* getAllUsers call that followed its showToast call rejected.
C11_EveryCallbackFires ==
    /\ [][Len(timers') < Len(timers) =>
              /\ Head(timers).left = 0
              /\ timers' = Tail(timers)
              /\ toast' = Shown(Head(timers))]_vars
    /\ \A x \in AllToasts :
           (\E i \in 1 .. Len(timers) : Shown(timers[i]) = Some(x))
               ~> (toast = Some(x))

C11_Witness ==
    /\ raced
    /\ toast = Some([message |-> "User Bo created", type |-> SUCCESS])
    /\ Len(timers) = 1
    /\ timers[1].message = "User Ann deleted"
    /\ \E p \in Ops : kind[p] = "create" /\ pc[p] = "rejected" /\ lists[p] = 1

\* C12: users starts empty and changes only in the step that delivers a
\* resolved getAllUsers call, whichever process issued it and whenever, and
\* then becomes the list that call returned: users is always the empty list
\* it started with or the list of the latest answer delivered.
C12_UsersIsLatestDelivered ==
    /\ users = <<>>
    /\ [][/\ \A p \in Procs : ListResolves(p) => users' = resp[p].users
          /\ (\A p \in Procs : ~ListResolves(p)) => users' = users]_vars

\* The mount effect's call was issued first and answered before the create,
\* and its answer is delivered last: users is the older list.
C12_Witness ==
    /\ pc[MountProc] = "resolved"
    /\ \E p \in Ops :
           /\ kind[p] = "create" /\ pc[p] = "resolved"
           /\ \A q \in Ops \ {p} : pc[q] = "idle"
    /\ users = <<User("1", "Ann")>>
    /\ backend = <<User("1", "Ann"), User("2", "Bo")>>

\* C13: the delivery of a resolved getAllUsers call changes users and
\* neither toast nor the timers; a showToast call and a timer callback change
\* toast and leave users alone; toast changes in no other step and users in
\* no other step; invoking createFn, editFn or deleteFn, the service answering
\* and a rejection change neither, and the step that receives a mutating
\* call's answer changes toast only by its showToast call.
C13_DisjointWriters ==
    [][/\ \A p \in Procs :
             ListResolves(p) => toast' = toast /\ timers' = timers
       /\ ToastCalled \/ TimerFired => users' = users
       /\ toast' # toast => ToastCalled \/ TimerFired
       /\ users' # users => \E p \in Procs : ListResolves(p)
       /\ \A p \in Ops :
             /\ pc[p] \in {"idle", "reqMutate"} /\ pc'[p] # pc[p] =>
                    UNCHANGED <<users, toast, timers>>
             /\ MutationResolves(p) =>
                    users' = users /\ ToastCalled /\ toast' = NULL]_vars

\* Both fields have been written: a fetched list and a toast are showing.
C13_Witness ==
    /\ users = <<User("1", "Ann"), User("2", "Bo")>>
    /\ toast = Some([message |-> "User Bo created", type |-> SUCCESS])
    /\ \E p \in Ops : kind[p] = "create" /\ pc[p] = "resolved"

====
